---- MODULE Spec2Model ----
(***************************************************************************)
(* Model of the job polling engine, hooks/usePollingJobStatus.js, and of   *)
(* the controls of components/ResultsTable.jsx that drive it (Spec); of    *)
(* the API client and the upload hook (ClientSpec); and of the finalize    *)
(* and download bar (BarSpec); and of the audit queue of                   *)
(* context/AuditContext.jsx with the login screen that feeds it            *)
(* (AuditSpec).                                                            *)
(*                                                                         *)
(* The hook is a set of closures over React state and over five mutable    *)
(* reference cells.  One action of the model is one run-to-completion      *)
(* step of the event loop: a user command, a timer callback, or the        *)
(* settling of one network request together with the synchronous           *)
(* continuation of the coroutine that awaited it, up to its next await.    *)
(* The re-render that a state change causes, and the effect of lines       *)
(* 233-238 that the re-render runs, are part of the step that caused them. *)
(*                                                                         *)
(* A closure (tick, fetchStatus, fetchResults, refreshNow) reads the       *)
(* jobId, page, pageSize and filter of the render that created it; every   *)
(* in-flight request and every timer therefore carries the job and the     *)
(* tuple its closure captured.                                             *)
(*                                                                         *)
(* The loading flag (set around the status fetch of a tick) and attemptsRef *)
(* (written by start, read nowhere) are left out: nothing reads them.      *)
(***************************************************************************)
EXTENDS Integers, Sequences, FiniteSets, TLC

\* ---------------------------------------------------------------- bounds
MaxInFlight == 2        \* requests that may be in flight at once
MaxAttempt == 5         \* cap of statusAttemptsRef
MaxPage == 2            \* pages the user may select
MaxUserOps == 2         \* commands the presentation layer issues in one run

\* ------------------------------------------------------ program constants
DefaultBaseMs == 1000
DefaultMaxMs == 8000
FloorBaseMs == 500
DefaultPageSize == 10

\* ------------------------------------------------------------- value sets
None == "none"
Jobs == {"A", "B"}
Slots == 1..MaxInFlight
Free == [kind |-> "free"]
NoTimer == 0
NoData == [job |-> "none", query |-> [page |-> 0, page_size |-> 0, severity |-> "", q |-> ""]]
Null == "null"

NoFilter == [severity |-> "", q |-> ""]
Filters == {NoFilter, [severity |-> "high", q |-> "logo"]}
PageSizes == {DefaultPageSize, 2 * DefaultPageSize}
Pages == 1..MaxPage

\* what the status endpoint may answer (data.status), "" for a missing field
RawStatuses == {"pending", "running", "completed", "failed", "COMPLETED", ""}
\* total of a results payload: absent, or a number
NoTotal == -1
Totals == {NoTotal, 11}
\* what the results endpoint may answer: an object with or without the array
\* violations (of count elements), with or without total and pagination.total,
\* or a bare array
Responses ==
    {[shape |-> "object", list |-> TRUE, count |-> 2, total |-> x, ptotal |-> y] :
        x \in Totals, y \in Totals}
    \cup {[shape |-> "array", list |-> TRUE, count |-> 2, total |-> NoTotal, ptotal |-> NoTotal],
          [shape |-> "object", list |-> FALSE, count |-> 0, total |-> NoTotal, ptotal |-> NoTotal]}
NoResponse == [shape |-> "none", list |-> FALSE, count |-> 0, total |-> NoTotal, ptotal |-> NoTotal]
\* what the search field and the severity select of the results table hold
\* when Apply is pressed
Typed == {[q |-> "", severity |-> ""], [q |-> " ", severity |-> ""],
          [q |-> "logo", severity |-> "high"]}
\* Math.random() * (baseMs / 2) lies in [0, baseMs/2): its extremes
Jitters == {0, 499}

VARIABLES
    jobId,              \* the hook's jobId argument
    optStart,           \* options.start
    status, violations, totalViolations, error,   \* useState cells
    page, pageSize, filter,
    runningRef, abortRef, statusAttemptsRef, timerRef,     \* useRef cells
    timers,             \* timers set by setTimeout and neither fired nor cleared
    inflight,           \* getJson calls that have not settled, by slot
    ops,                \* commands issued so far
    stopped             \* history: stop() has run and start() has not run since

vars == <<jobId, optStart, status, violations, totalViolations, error,
          page, pageSize, filter, runningRef, abortRef, statusAttemptsRef,
          timerRef, timers, inflight, ops, stopped>>

\* the API client (api/client), the upload hook (useUploadComplianceJob) and
\* the finalize and download bar (DownloadBar)
VARIABLES
    authUser,           \* user id of localStorage's auth_user, NoUser when absent
    calls,              \* apiFetch and fetch calls that have not settled, by slot
    returned,           \* what the call that settled last returned or threw
    upLoading, upError, jobInfo,    \* useState cells of useUploadComplianceJob
    upReturn,           \* what startJob returned last
    upVal,              \* val of the startJob that ran last (line 55)
    barJob, barStatus, barRole,     \* props of DownloadBar: jobId, status, user.role
    reason, finalized, barError, loadingFinalize, loadingDownload,  \* its useState cells
    finalizedJobs,      \* history: jobs whose finalize request succeeded
    cops                \* commands issued to the client and to the bar so far

cvars == <<authUser, calls, returned, upLoading, upError, jobInfo, upReturn, upVal,
           barJob, barStatus, barRole, reason, finalized, barError,
           loadingFinalize, loadingDownload, finalizedJobs, cops>>

VARIABLES
    entries,            \* useState cell of AuditProvider: the queue, ids of the entries
    lastError,          \* useState cell of AuditProvider
    sendingRef,         \* useRef cell of AuditProvider
    posts,              \* postJson calls of flush that have not settled, by slot
    flushTimers,        \* setTimeout callbacks of Login.submit not yet run
    flushReturn,        \* what the flush that returned last resolved to
    lastId,             \* ids uuidv4 has handed to enqueueAudit so far
    accepted,           \* history: entries of the batches the backend accepted
    nextTimer,          \* ids given to the callbacks of Login.submit so far
    aops                \* calls of enqueueAudit, flush and submit so far

avars == <<entries, lastError, sendingRef, posts, flushTimers, flushReturn,
           lastId, accepted, nextTimer, aops>>
allvars == <<vars, cvars, avars>>

Min(a, b) == IF a <= b THEN a ELSE b
Max(a, b) == IF a >= b THEN a ELSE b

RECURSIVE Pow2(_)
Pow2(n) == IF n = 0 THEN 1 ELSE 2 * Pow2(n - 1)

baseMs == Max(FloorBaseMs, DefaultBaseMs)
maxMs == Max(baseMs, DefaultMaxMs)

\* mutant: the cap of line 36 is dropped
computeBackoffUncapped(attempt, base, maxd, jitter) ==
    base * Pow2(attempt) + jitter

computeBackoff(attempt, base, maxd, jitter) ==
    Min(maxd, base * Pow2(attempt) + jitter)

\* mutant: the status is stored in the letter case the backend sent
NormalizeStatusKeepsCase(raw) ==
    IF raw = "" THEN "pending" ELSE raw

\* (data?.status || "pending").toLowerCase()
NormalizeStatus(raw) ==
    IF raw = "" THEN "pending"
    ELSE IF raw = "COMPLETED" THEN "completed"
    ELSE raw

Productive(st) == st \in {"running", "completed"}

\* line 89, recomputed by every render from the status of that render
isTerminal(st) == st = "completed" \/ st = "failed"

\* (filter.q || "").trim()
Trim(q) == IF q = " " THEN "" ELSE q

\* fetchResults, lines 138-143: the query of the request
BuildQuery(tup) ==
    [page |-> tup.page, page_size |-> tup.pageSize,
     severity |-> tup.filter.severity, q |-> Trim(tup.filter.q)]

\* the payload the backend returns for a results request: the violations of
\* the job and query asked for
ResultsFor(job, tup) == [job |-> job, query |-> BuildQuery(tup)]

\* fetchResults, line 149: the array violations of the answer, or the answer
\* when it is an array, or []
ExtractList(res, job, tup) ==
    IF res.list THEN ResultsFor(job, tup) ELSE NoData

\* mutant: with no total the length of the returned array is taken
ExtractTotalOrLength(res) ==
    IF res.total # NoTotal THEN res.total
    ELSE IF res.ptotal # NoTotal THEN res.ptotal
    ELSE res.count

\* fetchResults, line 150
ExtractTotal(res) ==
    IF res.total # NoTotal THEN res.total
    ELSE IF res.ptotal # NoTotal THEN res.ptotal
    ELSE NoTotal

Tuple(p, ps, f) == [page |-> p, pageSize |-> ps, filter |-> f]
CurTuple == Tuple(page, pageSize, filter)

\* the reference cells and the request/timer pools, threaded through a step
Refs == [running |-> runningRef, abort |-> abortRef,
         attempts |-> statusAttemptsRef, timerRef |-> timerRef,
         timers |-> timers, inflight |-> inflight, stopped |-> stopped]

SetRefs(m) ==
    /\ runningRef' = m.running
    /\ abortRef' = m.abort
    /\ statusAttemptsRef' = m.attempts
    /\ timerRef' = m.timerRef
    /\ timers' = m.timers
    /\ inflight' = m.inflight
    /\ stopped' = m.stopped

FreeSlots(f) == {s \in Slots : f[s] = Free}
FirstFree(f) == CHOOSE s \in FreeSlots(f) : \A t \in FreeSlots(f) : s <= t

cleanupTimer(m) ==
    IF m.timerRef # NoTimer
    THEN [m EXCEPT !.timers = {t \in m.timers : t.id # m.timerRef},
                   !.timerRef = NoTimer]
    ELSE m

cancelOngoing(m) ==
    IF m.abort # 0
    THEN [m EXCEPT !.inflight[m.abort].aborted = TRUE, !.abort = 0]
    ELSE m

\* history: every request in flight when stop() runs was issued before it
MarkCancelled(m) ==
    [m EXCEPT !.stopped = TRUE,
              !.inflight = [s \in Slots |->
                  IF m.inflight[s] = Free THEN Free
                  ELSE [m.inflight[s] EXCEPT !.cancelled = TRUE]]]

stop(m) == MarkCancelled(cancelOngoing(cleanupTimer([m EXCEPT !.running = FALSE])))

\* the head of fetchStatus / fetchResults: a new AbortController is stored in
\* abortRef and the request is sent (cancelled and restart are history: the
\* request was in flight when stop() ran; it is the status request of the
\* tick that a stop() followed at once by start() invoked)
Send(m, kind, owner, job, tup, st) ==
    LET s == FirstFree(m.inflight) IN
    [m EXCEPT !.inflight[s] = [kind |-> kind, owner |-> owner, job |-> job,
                               tup |-> tup, st |-> st, aborted |-> FALSE,
                               cancelled |-> FALSE, restart |-> FALSE],
              !.abort = s]

CanSend(m, n) == Cardinality(FreeSlots(m.inflight)) >= n

\* tick, from its entry to its first await
tick(m, job, tup) ==
    IF ~m.running \/ job = None THEN m
    ELSE Send(m, "status", "tick", job, tup, None)

\* tick, lines 183-189
FreshTimerId(m) == CHOOSE i \in 1..(Cardinality(m.timers) + 1) :
                       /\ \A t \in m.timers : t.id # i
                       /\ \A j \in 1..(i - 1) : \E t \in m.timers : t.id = j

\* mutant: line 184 is dropped, the timer of timerRef is not cleared
scheduleKeepsTimer(m, job, tup, jitter) ==
    LET attempt == m.attempts
        delayMs == computeBackoff(attempt, baseMs, maxMs, jitter)
        m1 == [m EXCEPT !.attempts = attempt + 1]
        id == FreshTimerId(m1)
    IN [m1 EXCEPT !.timers = m1.timers \cup {[id |-> id, job |-> job, tup |-> tup,
                                             attempt |-> attempt, delay |-> delayMs]},
                  !.timerRef = id]

schedule(m, job, tup, jitter) ==
    LET attempt == m.attempts
        delayMs == computeBackoff(attempt, baseMs, maxMs, jitter)
        m1 == cleanupTimer([m EXCEPT !.attempts = attempt + 1])
        id == FreshTimerId(m1)
    IN [m1 EXCEPT !.timers = m1.timers \cup {[id |-> id, job |-> job, tup |-> tup,
                                             attempt |-> attempt, delay |-> delayMs]},
                  !.timerRef = id]

\* mutant: the counters are reset before the test of line 194
startResetsWhenRunning(m, job, tup) ==
    IF job = None THEN m
    ELSE IF m.running THEN [m EXCEPT !.attempts = 0]
    ELSE tick(cancelOngoing(cleanupTimer([m EXCEPT !.running = TRUE, !.attempts = 0,
                                                   !.stopped = FALSE])),
              job, tup)

start(m, job, tup) ==
    IF job = None \/ m.running THEN m
    ELSE tick(cancelOngoing(cleanupTimer([m EXCEPT !.running = TRUE, !.attempts = 0,
                                                   !.stopped = FALSE])),
              job, tup)

\* mutant: the effect restarts the backoff as start() does
pageEffectRestartsBackoff(m, job, st, tup) ==
    IF m.running /\ job # None /\ Productive(st)
    THEN Send(cleanupTimer([m EXCEPT !.attempts = 0]), "results", "effect", job, tup, None)
    ELSE m

\* the effect of lines 233-238, run by the render that follows a change of
\* page, pageSize, filter, jobId or status
pageEffect(m, job, st, tup) ==
    IF m.running /\ job # None /\ Productive(st)
    THEN Send(m, "results", "effect", job, tup, None)
    ELSE m

EffectNeeds(m, job, st) == IF m.running /\ job # None /\ Productive(st) THEN 1 ELSE 0

\* the cells as useState and useRef create them, lines 71-84
NewRefs == [running |-> FALSE, abort |-> 0, attempts |-> 0, timerRef |-> NoTimer,
            timers |-> {}, inflight |-> [s \in Slots |-> Free], stopped |-> FALSE]

\* ------------------------------------ values of the API client and the bar
MaxCalls == 2           \* calls that may be unsettled at once
MaxClientOps == 3       \* calls of apiFetch and of startJob in one run
MaxBarOps == 4          \* commands issued to the bar in one run
MaxRetry == 2           \* largest retry.attempts a direct caller of apiFetch passes

DefaultRetryAttempts == 2
UploadRetryAttempts == 2
FinalizeRetryAttempts == 1
\* LIMITS, in MiB
ZipLimit == 200
BrandingLimit == 10
GuidelinesLimit == 10
MinReasonLength == 3

\* ------------------------------------------------ values of the audit queue
MaxEntries == 3         \* entries enqueued in one run
MaxPosts == 2           \* postJson calls of flush that may be unsettled at once
MaxFlushTimers == 2     \* callbacks of Login.submit that may be pending at once
MaxAuditOps == 5        \* calls of enqueueAudit, flush and submit in one run

AuditRetryAttempts == 1
TruncateAbove == 5000
KeepLast == 1000

CallSlots == 1..MaxCalls
NoCall == [owner |-> "free"]
NoStatus == 0
\* an error object: "" and NoStatus stand for an absent field
ErrorOf(name, message, code, st) ==
    [name |-> name, message |-> message, code |-> code, status |-> st]
NoError == ErrorOf("null", "", "", NoStatus)
NoReturn == [owner |-> "none", ok |-> FALSE, err |-> NoError]
NoJobInfo == [jobId |-> "null", status |-> "null"]
NoUpReturn == [jobId |-> "null", status |-> "null", error |-> NoError]

ClientAtRest ==
    /\ calls = [s \in CallSlots |-> NoCall]
    /\ returned = NoReturn
    /\ upLoading = FALSE /\ upError = NoError /\ jobInfo = NoJobInfo
    /\ upReturn = NoUpReturn
    /\ upVal = [ok |-> TRUE, message |-> "none"]
    /\ reason = <<>> /\ finalized = FALSE /\ barError = NoError
    /\ loadingFinalize = FALSE /\ loadingDownload = FALSE
    /\ finalizedJobs = {}
    /\ cops = 0
PostSlots == 1..MaxPosts
NoFlushReturn == [sent |-> 0 - 1, remaining |-> 0 - 1]
\* AuditProvider as mounted, lines 46-48, and nobody has called it
AuditAtRest ==
    /\ entries = <<>>
    /\ lastError = NoError
    /\ sendingRef = FALSE
    /\ posts = [s \in PostSlots |-> NoCall]
    /\ flushTimers = {}
    /\ flushReturn = NoFlushReturn
    /\ lastId = 0
    /\ accepted = {}
    /\ nextTimer = 0
    /\ aops = 0
\* the bar is not rendered
NoBar == barJob = None /\ barStatus = "" /\ barRole = ""

\* the state after the first render and its effects: the hook is mounted
\* without a job, or with one, which the effect of lines 214-230 starts when
\* options.start is set
PollInit ==
    /\ jobId \in {None, "A"}
    /\ optStart \in BOOLEAN
    /\ status = "idle"
    /\ violations = NoData
    /\ totalViolations = NoTotal
    /\ error = Null
    /\ page = 1
    /\ pageSize = DefaultPageSize
    /\ filter = NoFilter
    /\ LET m == IF jobId = None THEN stop(NewRefs)
                ELSE IF optStart THEN start(NewRefs, jobId, Tuple(1, DefaultPageSize, NoFilter))
                ELSE NewRefs
       IN /\ runningRef = m.running
          /\ abortRef = m.abort
          /\ statusAttemptsRef = m.attempts
          /\ timerRef = m.timerRef
          /\ timers = m.timers
          /\ inflight = m.inflight
          /\ stopped = FALSE
    /\ ops = 0

Init == PollInit /\ ClientAtRest /\ AuditAtRest /\ NoBar /\ authUser = None

\* ------------------------------------------------------------ user commands
Start ==
    /\ UNCHANGED <<cvars, avars>>
    /\ ops < MaxUserOps
    /\ ops' = ops + 1
    /\ jobId # None /\ ~runningRef
    /\ CanSend(Refs, 1)
    /\ SetRefs(start(Refs, jobId, CurTuple))
    /\ UNCHANGED <<jobId, optStart, status, violations, totalViolations, error,
                   page, pageSize, filter>>

\* start(), lines 193-194: the early returns
StartNoop ==
    /\ UNCHANGED <<cvars, avars>>
    /\ jobId = None \/ runningRef
    /\ SetRefs(start(Refs, jobId, CurTuple))
    /\ UNCHANGED <<jobId, optStart, status, violations, totalViolations, error,
                   page, pageSize, filter, ops>>

Stop ==
    /\ UNCHANGED <<cvars, avars>>
    /\ ops < MaxUserOps
    /\ ops' = ops + 1
    /\ SetRefs(stop(Refs))
    /\ UNCHANGED <<jobId, optStart, status, violations, totalViolations, error,
                   page, pageSize, filter>>

\* stop() and start() called one after the other by the same handler: two
\* commands, one step
Restart ==
    /\ UNCHANGED <<cvars, avars>>
    /\ ops + 2 <= MaxUserOps
    /\ ops' = ops + 2
    /\ jobId # None
    /\ CanSend(Refs, 1)
    /\ LET m == start(stop(Refs), jobId, CurTuple)
       IN SetRefs([m EXCEPT !.inflight[m.abort].restart = TRUE])
    /\ UNCHANGED <<jobId, optStart, status, violations, totalViolations, error,
                   page, pageSize, filter>>

RefreshNow ==
    /\ UNCHANGED <<cvars, avars>>
    /\ ops < MaxUserOps
    /\ ops' = ops + 1
    /\ jobId # None
    /\ CanSend(Refs, 1)
    /\ SetRefs(Send(Refs, "status", "refresh", jobId, CurTuple, None))
    /\ UNCHANGED <<jobId, optStart, status, violations, totalViolations, error,
                   page, pageSize, filter>>

SetPage(n) ==
    /\ UNCHANGED <<cvars, avars>>
    /\ ops < MaxUserOps
    /\ ops' = ops + 1
    /\ n # page
    /\ CanSend(Refs, EffectNeeds(Refs, jobId, status))
    /\ page' = n
    /\ SetRefs(pageEffect(Refs, jobId, status, Tuple(n, pageSize, filter)))
    /\ UNCHANGED <<jobId, optStart, status, violations, totalViolations, error,
                   pageSize, filter>>

SetPageSize(n) ==
    /\ UNCHANGED <<cvars, avars>>
    /\ ops < MaxUserOps
    /\ ops' = ops + 1
    /\ n # pageSize
    /\ CanSend(Refs, EffectNeeds(Refs, jobId, status))
    /\ pageSize' = n
    /\ SetRefs(pageEffect(Refs, jobId, status, Tuple(page, n, filter)))
    /\ UNCHANGED <<jobId, optStart, status, violations, totalViolations, error,
                   page, filter>>

\* the caller passes a new object: the effect runs whatever the object holds
SetFilter(f) ==
    /\ UNCHANGED <<cvars, avars>>
    /\ ops < MaxUserOps
    /\ ops' = ops + 1
    /\ CanSend(Refs, EffectNeeds(Refs, jobId, status))
    /\ filter' = f
    /\ SetRefs(pageEffect(Refs, jobId, status, Tuple(page, pageSize, f)))
    /\ UNCHANGED <<jobId, optStart, status, violations, totalViolations, error,
                   page, pageSize>>

\* ------------------------------------------- commands of the results table
\* ResultsTable mounted with the hook's page, pageSize, filter and
\* totalViolations as its props and the hook's setters as its callbacks; the
\* state changes of one handler are rendered together, so the effect of lines
\* 233-238 runs once
Ceil(a, b) == (a + b - 1) \div b

totalPages(total, ps) ==
    IF total = NoTotal \/ total <= 0 THEN 1 ELSE Max(1, Ceil(total, ps))

\* applyFilter: onFilterChange({q: q.trim(), severity: sev}), then
\* onPageChange(1) unless page is 1 already
ApplyFilter(typed) ==
    /\ UNCHANGED <<cvars, avars>>
    /\ ops < MaxUserOps
    /\ ops' = ops + 1
    /\ CanSend(Refs, EffectNeeds(Refs, jobId, status))
    /\ filter' = [severity |-> typed.severity, q |-> Trim(typed.q)]
    /\ page' = IF page # 1 THEN 1 ELSE page
    /\ SetRefs(pageEffect(Refs, jobId, status, Tuple(page', pageSize, filter')))
    /\ UNCHANGED <<jobId, optStart, status, violations, totalViolations, error,
                   pageSize>>

ClearFilter ==
    /\ UNCHANGED <<cvars, avars>>
    /\ ops < MaxUserOps
    /\ ops' = ops + 1
    /\ CanSend(Refs, EffectNeeds(Refs, jobId, status))
    /\ filter' = NoFilter
    /\ page' = IF page # 1 THEN 1 ELSE page
    /\ SetRefs(pageEffect(Refs, jobId, status, Tuple(page', pageSize, filter')))
    /\ UNCHANGED <<jobId, optStart, status, violations, totalViolations, error,
                   pageSize>>

\* the Next button: disabled when page >= totalPages
NextEnabled(total, p, ps) == ~(p >= totalPages(total, ps))

NextPage ==
    /\ UNCHANGED <<cvars, avars>>
    /\ ops < MaxUserOps
    /\ ops' = ops + 1
    /\ NextEnabled(totalViolations, page, pageSize)
    /\ CanSend(Refs, EffectNeeds(Refs, jobId, status))
    /\ page' = Min(totalPages(totalViolations, pageSize), page + 1)
    /\ SetRefs(pageEffect(Refs, jobId, status, Tuple(page', pageSize, filter)))
    /\ UNCHANGED <<jobId, optStart, status, violations, totalViolations, error,
                   pageSize, filter>>

\* the Prev button: disabled when page <= 1
PrevPage ==
    /\ UNCHANGED <<cvars, avars>>
    /\ ops < MaxUserOps
    /\ ops' = ops + 1
    /\ ~(page <= 1)
    /\ CanSend(Refs, EffectNeeds(Refs, jobId, status))
    /\ page' = Max(1, page - 1)
    /\ SetRefs(pageEffect(Refs, jobId, status, Tuple(page', pageSize, filter)))
    /\ UNCHANGED <<jobId, optStart, status, violations, totalViolations, error,
                   pageSize, filter>>

\* the jobId argument changes: cleanup of the previous run of the effect of
\* lines 214-230, then the effect, then the effect of lines 233-238
SetJobId(j) ==
    /\ UNCHANGED <<cvars, avars>>
    /\ ops < MaxUserOps
    /\ ops' = ops + 1
    /\ j # jobId
    /\ LET m0 == IF jobId # None THEN stop(Refs) ELSE Refs
           m1 == IF j = None THEN stop(m0)
                 ELSE IF optStart THEN start(m0, j, CurTuple)
                 ELSE m0
           st1 == IF j = None THEN "idle" ELSE status
       IN /\ (j # None /\ optStart) => CanSend(m0, 1)
          /\ CanSend(m1, EffectNeeds(m1, j, st1))
          /\ jobId' = j
          /\ status' = st1
          /\ violations' = IF j = None THEN NoData ELSE violations
          /\ totalViolations' = IF j = None THEN NoTotal ELSE totalViolations
          /\ error' = IF j = None THEN Null ELSE error
          /\ SetRefs(pageEffect(m1, j, st1, CurTuple))
    /\ UNCHANGED <<optStart, page, pageSize, filter>>

\* ---------------------------------------------------------- timer callback
TimerFire(t) ==
    /\ UNCHANGED <<cvars, avars>>
    /\ UNCHANGED ops
    /\ t \in timers
    /\ LET m0 == [Refs EXCEPT !.timers = timers \ {t}]
       IN /\ (m0.running /\ t.job # None) => CanSend(m0, 1)
          /\ SetRefs(tick(m0, t.job, t.tup))
    /\ UNCHANGED <<jobId, optStart, status, violations, totalViolations, error,
                   page, pageSize, filter>>

\* ------------------------------------------------------- request settling
\* what a getJson call may settle with: an aborted one rejects with AbortError
Outcomes(r, payloads, nodata) ==
    IF r.aborted THEN {[ok |-> FALSE, data |-> nodata, err |-> "AbortError"]}
    ELSE {[ok |-> TRUE, data |-> d, err |-> Null] : d \in payloads}
         \cup {[ok |-> FALSE, data |-> nodata, err |-> "HttpError"]}

\* mutant: line 177 tests for completed alone, so failed is polled again
tickAfterStatusFailedNotTerminal(m, r, st, jitter) ==
    IF ~m.running THEN m
    ELSE IF Productive(st) THEN Send(m, "results", "tick", r.job, r.tup, st)
    ELSE schedule(m, r.job, r.tup, jitter)

\* mutant: a status fetch that failed ends the loop like a terminal status
tickAfterStatusErrorStops(m, r, st, jitter) ==
    IF ~m.running THEN m
    ELSE IF Productive(st) THEN Send(m, "results", "tick", r.job, r.tup, st)
    ELSE IF st \in {"failed", Null} THEN cleanupTimer([m EXCEPT !.running = FALSE])
    ELSE schedule(m, r.job, r.tup, jitter)

\* tick, lines 167-189, after fetchStatus has returned st
\* mutant: the results are fetched after every status but failed
tickAfterStatusFetchesUnlessFailed(m, r, st, jitter) ==
    IF ~m.running THEN m
    ELSE IF st = "failed" THEN cleanupTimer([m EXCEPT !.running = FALSE])
    ELSE Send(m, "results", "tick", r.job, r.tup, st)

tickAfterStatus(m, r, st, jitter) ==
    IF ~m.running THEN m
    ELSE IF Productive(st) THEN Send(m, "results", "tick", r.job, r.tup, st)
    ELSE IF st = "failed" THEN cleanupTimer([m EXCEPT !.running = FALSE])
    ELSE schedule(m, r.job, r.tup, jitter)

\* mutant: refreshNow restarts the backoff like a productive tick
refreshAfterStatusResetsBackoff(m, r, st) ==
    IF Productive(st)
    THEN Send([m EXCEPT !.attempts = 0], "results", "refresh", r.job, r.tup, None)
    ELSE m

\* refreshNow, lines 208-210
refreshAfterStatus(m, r, st) ==
    IF Productive(st) THEN Send(m, "results", "refresh", r.job, r.tup, None) ELSE m

StatusSettles(s, o, jitter) ==
    /\ UNCHANGED <<cvars, avars>>
    /\ UNCHANGED ops
    /\ inflight[s] # Free
    /\ inflight[s].kind = "status"
    /\ LET r == inflight[s]
           st == IF o.ok THEN NormalizeStatus(o.data) ELSE Null
           st1 == IF o.ok THEN st ELSE status
           m0 == [Refs EXCEPT !.inflight[s] = Free, !.abort = 0]
           schedules == r.owner = "tick" /\ m0.running /\ ~Productive(st) /\ st # "failed"
           m1 == IF r.owner = "tick" THEN tickAfterStatus(m0, r, st, jitter)
                 ELSE refreshAfterStatus(m0, r, st)
       IN /\ o \in Outcomes(r, RawStatuses, "")
          /\ schedules => statusAttemptsRef < MaxAttempt
          /\ (st1 # status) => CanSend(m1, EffectNeeds(m1, jobId, st1))
          /\ status' = st1
          /\ error' = IF o.ok THEN Null ELSE o.err
          /\ SetRefs(IF st1 # status THEN pageEffect(m1, jobId, st1, CurTuple) ELSE m1)
    /\ UNCHANGED <<jobId, optStart, violations, totalViolations, page, pageSize, filter>>

\* mutant: line 174 is dropped, the counter is not reset
tickAfterResultsNoReset(m, r, jitter) ==
    IF r.st \in {"completed", "failed"} THEN cleanupTimer([m EXCEPT !.running = FALSE])
    ELSE schedule(m, r.job, r.tup, jitter)

\* tick, lines 174-189, after fetchResults has returned
tickAfterResults(m, r, jitter) ==
    LET m1 == [m EXCEPT !.attempts = 0] IN
    IF r.st \in {"completed", "failed"} THEN cleanupTimer([m1 EXCEPT !.running = FALSE])
    ELSE schedule(m1, r.job, r.tup, jitter)

\* mutant: the catch of fetchResults clears the data it could not refresh
ResultsSettlesClearsOnFailure(s, o, jitter) ==
    /\ UNCHANGED <<cvars, avars>>
    /\ UNCHANGED ops
    /\ inflight[s] # Free
    /\ inflight[s].kind = "results"
    /\ LET r == inflight[s]
           m0 == [Refs EXCEPT !.inflight[s] = Free, !.abort = 0]
       IN /\ o \in Outcomes(r, Responses, NoResponse)
          /\ violations' = IF o.ok THEN ExtractList(o.data, r.job, r.tup) ELSE NoData
          /\ totalViolations' = IF o.ok THEN ExtractTotal(o.data) ELSE NoTotal
          /\ error' = IF o.ok THEN Null ELSE o.err
          /\ SetRefs(IF r.owner = "tick" THEN tickAfterResults(m0, r, jitter) ELSE m0)
    /\ UNCHANGED <<jobId, optStart, status, page, pageSize, filter>>

ResultsSettles(s, o, jitter) ==
    /\ UNCHANGED <<cvars, avars>>
    /\ UNCHANGED ops
    /\ inflight[s] # Free
    /\ inflight[s].kind = "results"
    /\ LET r == inflight[s]
           m0 == [Refs EXCEPT !.inflight[s] = Free, !.abort = 0]
       IN /\ o \in Outcomes(r, Responses, NoResponse)
          /\ violations' = IF o.ok THEN ExtractList(o.data, r.job, r.tup) ELSE violations
          /\ totalViolations' = IF o.ok THEN ExtractTotal(o.data) ELSE totalViolations
          /\ error' = IF o.ok THEN Null ELSE o.err
          /\ SetRefs(IF r.owner = "tick" THEN tickAfterResults(m0, r, jitter) ELSE m0)
    /\ UNCHANGED <<jobId, optStart, status, page, pageSize, filter>>

StatusOutcomes ==
    {[ok |-> TRUE, data |-> d, err |-> Null] : d \in RawStatuses}
    \cup {[ok |-> FALSE, data |-> "", err |-> e] : e \in {"AbortError", "HttpError"}}

ResultsOutcomes ==
    {[ok |-> TRUE, data |-> d, err |-> Null] : d \in Responses}
    \cup {[ok |-> FALSE, data |-> NoResponse, err |-> e] : e \in {"AbortError", "HttpError"}}

Next ==
    \/ Start
    \/ StartNoop
    \/ Stop
    \/ Restart
    \/ RefreshNow
    \/ \E n \in Pages : SetPage(n)
    \/ \E n \in PageSizes : SetPageSize(n)
    \/ \E f \in Filters : SetFilter(f)
    \/ \E typed \in Typed : ApplyFilter(typed)
    \/ ClearFilter
    \/ NextPage
    \/ PrevPage
    \/ \E j \in Jobs \cup {None} : SetJobId(j)
    \/ \E t \in timers : TimerFire(t)
    \/ \E s \in Slots, o \in StatusOutcomes, jitter \in Jitters : StatusSettles(s, o, jitter)
    \/ \E s \in Slots, o \in ResultsOutcomes, jitter \in Jitters : ResultsSettles(s, o, jitter)

Spec == Init /\ [][Next]_allvars

\* ------------------------------------------------------- steps, as seen
\* from a pair of states
\* only the settling of the request in slot s changes the slot in a step that
\* is no command
SlotSettles(s, kind) ==
    /\ inflight[s] # Free /\ inflight[s].kind = kind
    /\ ops' = ops /\ inflight'[s] # inflight[s]

StatusSettledOk(s) ==
    /\ SlotSettles(s, "status") /\ error' = Null
    /\ \E o \in StatusOutcomes, j \in Jitters : o.ok /\ StatusSettles(s, o, j)
StatusSettledErr(s) ==
    /\ SlotSettles(s, "status") /\ error' # Null
    /\ \E o \in StatusOutcomes, j \in Jitters : ~o.ok /\ StatusSettles(s, o, j)
ResultsSettledOk(s) ==
    /\ SlotSettles(s, "results") /\ error' = Null
    /\ \E o \in ResultsOutcomes, j \in Jitters : o.ok /\ ResultsSettles(s, o, j)
ResultsSettledErr(s) ==
    /\ SlotSettles(s, "results") /\ error' # Null
    /\ \E o \in ResultsOutcomes, j \in Jitters : ~o.ok /\ ResultsSettles(s, o, j)
Settled(s) == StatusSettledOk(s) \/ StatusSettledErr(s)
              \/ ResultsSettledOk(s) \/ ResultsSettledErr(s)
StartStep == Start \/ Restart \/ \E j \in Jobs : SetJobId(j)

\* slot s holds, after the step, a request the step has sent
Issued(s) ==
    /\ inflight'[s] # Free
    /\ inflight[s] = Free \/ inflight[s].kind # inflight'[s].kind

\* ------------------------------------------------------------------ C1
\* C1: a results response whose request the page/filter effect issued, for the
\* tuple then current, is applied to violations and totalViolations only if
\* that tuple is still the current one.
C1_StaleResponseDiscarded ==
    [][\A s \in Slots :
          (ResultsSettledOk(s) /\ inflight[s].owner = "effect")
              => inflight[s].tup = CurTuple]_vars

\* ------------------------------------------------------------------ C2
\* C2: every results request a tick sends carries the page, pageSize and
\* filter that are current when it is sent.
C2_TickUsesCurrentTuple ==
    [][\A s \in Slots :
          (Issued(s) /\ inflight'[s].kind = "results" /\ inflight'[s].owner = "tick")
              => inflight'[s].tup = CurTuple']_vars

\* ------------------------------------------------------------------ C3
\* C3: when a tick of the running engine has got completed or failed from its
\* status fetch, the tick ends with the running flag false and no timer
\* pending; only start() sets the flag again, and no tick sends a status
\* request while the flag is false.
TerminalTickEnds(s) ==
    \/ StatusSettledOk(s) /\ inflight[s].owner = "tick" /\ runningRef /\ status' = "failed"
    \/ (ResultsSettledOk(s) \/ ResultsSettledErr(s))
          /\ inflight[s].owner = "tick" /\ inflight[s].st = "completed"

C3_TerminalStopsLoop ==
    [][/\ \A s \in Slots : TerminalTickEnds(s) => (~runningRef' /\ timers' = {})
       /\ (~runningRef /\ runningRef') => StartStep
       /\ \A s \in Slots :
             (Issued(s) /\ inflight'[s].owner = "tick" /\ inflight'[s].kind = "status")
                 => (runningRef \/ StartStep)]_vars

C3_Witness ==
    /\ status \in {"completed", "failed"}
    /\ ~runningRef /\ ~stopped /\ timers = {} /\ timerRef = NoTimer
    /\ statusAttemptsRef > 0

\* ------------------------------------------------------------------ C4
\* C4: the settling of a request that was in flight when stop() ran (called
\* directly or by a change of jobId) changes none of status, violations,
\* totalViolations, error.
C4_CancelledOutcomeDiscarded ==
    [][\A s \in Slots :
          (Settled(s) /\ inflight[s].cancelled)
              => UNCHANGED <<status, violations, totalViolations, error>>]_vars

\* ------------------------------------------------------------------ C5
\* C5: every change of jobId leaves status idle and violations,
\* totalViolations and error empty.
C5_JobChangeResets ==
    [][jobId' # jobId =>
          /\ status' = "idle"
          /\ violations' = NoData
          /\ totalViolations' = NoTotal
          /\ error' = Null]_vars

\* ------------------------------------------------------------------ C6
\* C6: when the status fetch of a tick fails while the engine is running, the
\* error is stored, the running flag stays true, the attempt counter advances
\* by one and the next tick is scheduled with the attempt number the counter
\* had.
C6_StatusFailureKeepsPolling ==
    [][\A s \in Slots :
          (StatusSettledErr(s) /\ inflight[s].owner = "tick" /\ runningRef)
              => /\ error' # Null
                 /\ runningRef'
                 /\ statusAttemptsRef' = statusAttemptsRef + 1
                 /\ \E t \in timers' :
                       /\ t.id = timerRef'
                       /\ t.attempt = statusAttemptsRef
                       /\ t.job = inflight[s].job]_vars

C6_Witness ==
    /\ runningRef /\ error = "HttpError"
    /\ \E t \in timers : t.id = timerRef /\ t.attempt = 1

\* ------------------------------------------------------------------ C7
\* C7: every request the engine sends is for the job that is bound when it is
\* sent.
C7_RequestsForBoundJob ==
    [][\A s \in Slots : Issued(s) => inflight'[s].job = jobId']_vars

\* ------------------------------------------------------------------ C8
\* C8: from the return of stop() to the next start() the engine is not
\* running and no timer is pending.
C8_StoppedMeansNoTimer == stopped => (~runningRef /\ timers = {})

C10_FailedResultsKeepCounter ==
    [][\A s \in Slots :
          (ResultsSettledErr(s) /\ inflight[s].owner = "tick" /\ inflight[s].st = "running")
              => statusAttemptsRef' = statusAttemptsRef + 1]_vars

\* C10 amended: a tick resets the counter only after a productive status, when
\* the results fetch that followed has settled, with or without success: the
\* timer it then sets was computed from attempt 0; no other step of a tick
\* lowers the counter.
C10_ResetAfterProductiveStatus ==
    [][\A s \in Slots :
          /\ ((ResultsSettledOk(s) \/ ResultsSettledErr(s)) /\ inflight[s].owner = "tick")
                => /\ Productive(inflight[s].st)
                   /\ inflight[s].st = "running" =>
                         /\ statusAttemptsRef' = 1
                         /\ \E t \in timers' : t.id = timerRef' /\ t.attempt = 0
                   /\ inflight[s].st = "completed" => statusAttemptsRef' = 0
          /\ ((StatusSettledOk(s) \/ StatusSettledErr(s)) /\ inflight[s].owner = "tick")
                => statusAttemptsRef' >= statusAttemptsRef]_vars

C10_Witness ==
    /\ error = "HttpError" /\ status = "running" /\ runningRef
    /\ statusAttemptsRef = 1
    /\ \E t \in timers : t.id = timerRef /\ t.attempt = 0
    /\ \E s \in Slots : inflight[s] = Free

\* ------------------------------------------------------------------ C11
\* C11: stop() followed at once by start(), with a job bound, sends exactly one
\* status request, which is for the bound job, and leaves the attempt counter
\* at 0; the delay that the tick so started computes when its status fetch
\* has returned is computed from attempt 0, whatever was in flight when
\* stop() was called.
C11_RestartResetsBackoff ==
    [][/\ Restart =>
              /\ statusAttemptsRef' = 0
              /\ Cardinality({s \in Slots : Issued(s)}) = 1
              /\ \A s \in Slots : Issued(s) =>
                     /\ inflight'[s].kind = "status"
                     /\ inflight'[s].job = jobId
       /\ \A s \in Slots :
             (/\ SlotSettles(s, "status")
              /\ inflight[s].restart
              /\ statusAttemptsRef' # statusAttemptsRef)
                 => \E t \in timers' : t.id = timerRef' /\ t.attempt = 0]_vars

\* ------------------------------------------------------------------ C12
\* C12: refreshNow(), called with a job bound, sends one status request; when
\* that request has returned running or completed it sends one results
\* request, otherwise none; none of its steps changes the running flag, the
\* pending timer or the attempt counter, whether the engine is running or not.
RefreshSent == {x \in Slots : Issued(x) /\ inflight'[x].owner = "refresh"}

C12_RefreshNowFrame ==
    [][/\ RefreshNow =>
              /\ Cardinality(RefreshSent) = 1
              /\ \A x \in RefreshSent :
                     inflight'[x].kind = "status" /\ inflight'[x].job = jobId
              /\ UNCHANGED <<runningRef, statusAttemptsRef, timerRef, timers>>
       /\ \A s \in Slots :
             (SlotSettles(s, "status") /\ inflight[s].owner = "refresh") =>
                 /\ UNCHANGED <<runningRef, statusAttemptsRef, timerRef, timers>>
                 /\ IF error' = Null /\ Productive(status')
                    THEN /\ Cardinality(RefreshSent) = 1
                         /\ \A x \in RefreshSent :
                                /\ inflight'[x].kind = "results"
                                /\ inflight'[x].job = inflight[s].job
                    ELSE RefreshSent = {}
       /\ \A s \in Slots :
             (SlotSettles(s, "results") /\ inflight[s].owner = "refresh") =>
                 /\ UNCHANGED <<runningRef, statusAttemptsRef, timerRef, timers>>
                 /\ RefreshSent = {}]_vars

C12_Witness ==
    /\ runningRef /\ timers # {} /\ statusAttemptsRef > 0
    /\ \E s \in Slots : /\ inflight[s].kind = "results"
                         /\ inflight[s].owner = "refresh"

\* ------------------------------------------------------------------ C13
\* C13: every change of page, pageSize or filter made while a job is bound and
\* status is running or completed sends a results request for the bound job
\* with the new page, pageSize and filter, also when the poll loop has ended.
C13_TupleChangeFetches ==
    [][(/\ jobId # None /\ jobId' = jobId
        /\ Productive(status)
        /\ <<page, pageSize, filter>>' # <<page, pageSize, filter>>)
          => \E s \in Slots :
                /\ Issued(s)
                /\ inflight'[s].kind = "results"
                /\ inflight'[s].job = jobId
                /\ inflight'[s].tup = CurTuple']_vars

\* ------------------------------------------------------------------ C14
\* C14: every step that changes the filter leaves page at 1.
C14_FilterChangeResetsPage ==
    [][filter' # filter => page' = 1]_vars

\* ------------------------------------------------------------------ C15
\* C15: a change of the filter made while a job is bound, status is running
\* and the engine is running sends exactly one request, a results request for
\* the bound job with the new filter, and changes neither the attempt counter
\* nor the pending timer.
C15_FilterChangeOneFetch ==
    [][(/\ filter' # filter
        /\ jobId # None /\ jobId' = jobId
        /\ status = "running" /\ runningRef)
          => /\ Cardinality({s \in Slots : Issued(s)}) = 1
             /\ \A s \in Slots : Issued(s) =>
                    /\ inflight'[s].kind = "results"
                    /\ inflight'[s].job = jobId
                    /\ inflight'[s].tup = CurTuple'
             /\ UNCHANGED <<statusAttemptsRef, timerRef, timers>>]_vars

C15_Witness ==
    /\ runningRef /\ status = "running" /\ timers # {}
    /\ filter # NoFilter
    /\ \E s \in Slots : /\ inflight[s].kind = "results"
                         /\ inflight[s].owner = "effect"
                         /\ inflight[s].tup = CurTuple

\* ------------------------------------------------------------------ C16
\* C16: when a results request has succeeded, totalViolations is the total of
\* the answer when the answer carries one, whatever the number of violations
\* returned, and is null when the answer carries none (an object without
\* total and without pagination.total, or a bare array).
C16_TotalFromServer ==
    [][\A s \in Slots :
          SlotSettles(s, "results") =>
              \A o \in ResultsOutcomes, j \in Jitters :
                  (o.ok /\ ResultsSettles(s, o, j)) =>
                      /\ o.data.total # NoTotal => totalViolations' = o.data.total
                      /\ (o.data.total = NoTotal /\ o.data.ptotal = NoTotal)
                            => totalViolations' = NoTotal]_vars

C16_Witness ==
    /\ jobId # None /\ violations = ResultsFor(jobId, CurTuple)
    /\ totalViolations = 11 /\ error = Null

\* ------------------------------------------------------------------ C17
\* C17: while totalViolations is null the Next button of the table is enabled,
\* on every page, and a step of the Next button moves to page + 1.
C17_NextEnabledWhenTotalUnknown ==
    totalViolations = NoTotal => NextEnabled(totalViolations, page, pageSize)

\* ------------------------------------------------------------------ C18
\* C18: a status or results request that fails leaves status, violations and
\* totalViolations as they were and stores its error; when the results
\* request of a tick that got running fails while the engine is running, the
\* engine stays running and the next tick is scheduled.
C18_FailureKeepsData ==
    [][\A s \in Slots :
          /\ (StatusSettledErr(s) \/ ResultsSettledErr(s)) =>
                 /\ UNCHANGED <<status, violations, totalViolations>>
                 /\ error' # Null
          /\ (/\ ResultsSettledErr(s) /\ inflight[s].owner = "tick"
              /\ inflight[s].st = "running" /\ runningRef) =>
                 /\ runningRef'
                 /\ \E t \in timers' : t.id = timerRef']_vars

C18_Witness ==
    /\ violations # NoData /\ totalViolations = 11
    /\ error = "HttpError" /\ status = "running"
    /\ runningRef /\ \E t \in timers : t.id = timerRef

\* ------------------------------------------------------------------ C19
\* C19: status is always one of the lowercase names, and after every status
\* answer isTerminal is true exactly if the backend answered completed or
\* failed, in whatever letter case.
C19_TerminalIffStatus ==
    [][/\ status' \in {"idle", "pending", "running", "completed", "failed"}
       /\ \A s \in Slots :
             SlotSettles(s, "status") =>
                 \A o \in StatusOutcomes, j \in Jitters :
                     (o.ok /\ StatusSettles(s, o, j)) =>
                         (isTerminal(status')
                             <=> o.data \in {"completed", "failed", "COMPLETED"})]_vars

C19_Witness ==
    /\ isTerminal(status) /\ status = "completed"
    /\ ~runningRef /\ error = Null /\ violations # NoData

\* ------------------------------------------------------------------ C20
\* C20: start() called while the engine is running or while no job is bound
\* sends nothing and leaves the running flag, the attempt counter, the timer
\* and the requests in flight as they are; called otherwise it sets the
\* running flag and sends, in the same step, one status request for the bound
\* job.
C20_StartNoopOrFetch ==
    [][/\ StartNoop =>
              UNCHANGED <<runningRef, statusAttemptsRef, timerRef, timers,
                          inflight, abortRef>>
       /\ Start =>
              /\ runningRef' /\ statusAttemptsRef' = 0
              /\ Cardinality({s \in Slots : Issued(s)}) = 1
              /\ \A s \in Slots : Issued(s) =>
                     /\ inflight'[s].kind = "status"
                     /\ inflight'[s].owner = "tick"
                     /\ inflight'[s].job = jobId]_vars

C20_Witness ==
    /\ ~optStart /\ ops = 1 /\ runningRef /\ statusAttemptsRef = 0
    /\ timers = {}
    /\ \E s \in Slots : inflight[s].kind = "status" /\ inflight[s].owner = "tick"

\* =========================================================================
\* The API client (api/client), the upload hook and the bar
\* =========================================================================

\* ------------------------------------------------------ upload validation
\* a File: its name (base and extension), its MIME type and its size in MiB;
\* NoFile stands for null and for undefined
FileOf(base, ext, type, size) ==
    [present |-> TRUE, base |-> base, ext |-> ext, type |-> type, size |-> size]
NoFile == [present |-> FALSE, base |-> "", ext |-> "", type |-> "", size |-> 0]

ZipFiles ==
    {NoFile,
     FileOf("images", "zip", "application/zip", ZipLimit),
     FileOf("images", "ZIP", "", 1),
     FileOf("images", "zip", "application/zip", ZipLimit + 1),
     FileOf("images", "rar", "application/x-rar", 1)}
BrandFiles ==
    {NoFile,
     FileOf("logo", "png", "image/png", BrandingLimit),
     FileOf("logo", "png", "image/png", BrandingLimit + 1),
     FileOf("logo", "svg", "image/svg+xml", 1)}
GuideFiles ==
    {NoFile,
     FileOf("guide", "pdf", "application/pdf", GuidelinesLimit),
     FileOf("guide", "txt", "", GuidelinesLimit + 1),
     FileOf("logo", "png", "text/plain", 1),
     FileOf("guide", "doc", "application/msword", 1)}
\* two payloads that hold every file the form asks for, without and with a
\* replacement brand
GoodPayloads ==
    {[zip |-> FileOf("images", "zip", "application/zip", ZipLimit),
      oldBrand |-> FileOf("logo", "png", "image/png", BrandingLimit),
      newBrand |-> nb,
      guidelines |-> FileOf("guide", "pdf", "application/pdf", GuidelinesLimit),
      intendReplace |-> nb.present] :
        nb \in {NoFile, FileOf("logo", "png", "image/png", BrandingLimit)}}
\* what a caller passes to startJob: a good payload, or one that differs from
\* a good one in one field
Payloads ==
    {p \in [zip : ZipFiles, oldBrand : BrandFiles, newBrand : BrandFiles,
            guidelines : GuideFiles, intendReplace : BOOLEAN] :
        \E g \in GoodPayloads : Cardinality({k \in DOMAIN p : p[k] # g[k]}) <= 1}

\* String.prototype.toLowerCase and the i flag of the matchers, on the
\* strings of the model
LowerCase(s) ==
    CASE s = "ZIP" -> "zip"
      [] s = "COMPLETED" -> "completed"
      [] OTHER -> s

\* payload?.field of an object that may lack the field
Field(payload, k) == IF k \in DOMAIN payload THEN payload[k] ELSE NoFile

Passed == [ok |-> TRUE, message |-> ""]
Failed(message) == [ok |-> FALSE, message |-> message]

Limit(kind) ==
    CASE kind = "zip" -> ZipLimit
      [] kind = "branding" -> BrandingLimit
      [] kind = "guidelines" -> GuidelinesLimit

TypeMatches(kind, f) ==
    CASE kind = "zip" ->
            \/ LowerCase(f.ext) = "zip"
            \/ f.type \in {"application/zip", "application/x-zip-compressed",
                           "multipart/x-zip"}
      [] kind = "branding" -> f.type = "image/png" \/ LowerCase(f.ext) = "png"
      [] kind = "guidelines" ->
            \/ f.type \in {"application/pdf", "text/plain"}
            \/ LowerCase(f.ext) \in {"pdf", "txt"}

validateFileType(kind, f) ==
    IF ~f.present THEN Failed("File missing.")
    ELSE IF TypeMatches(kind, f) THEN Passed
    ELSE Failed("Invalid file type.")

validateFileSize(kind, f) ==
    IF ~f.present THEN Failed("File missing.")
    ELSE IF f.size > Limit(kind) THEN Failed("File exceeds size limit.")
    ELSE Passed

\* the first check that fails, in the order of the code
FirstFailure(checks) ==
    IF \E i \in 1..Len(checks) : ~checks[i].ok
    THEN checks[CHOOSE i \in 1..Len(checks) :
                    ~checks[i].ok /\ \A k \in 1..(i - 1) : checks[k].ok]
    ELSE Passed

validateUploadPayload(payload) ==
    LET zip == Field(payload, "zip")
        branding == Field(payload, "branding")
        guidelines == Field(payload, "guidelines")
    IN IF ~zip.present \/ ~branding.present \/ ~guidelines.present
       THEN Failed("All files are required: zip, branding PNG, guidelines.")
       ELSE FirstFailure(<<
                validateFileType("zip", zip),
                validateFileType("branding", branding),
                validateFileType("guidelines", guidelines),
                validateFileSize("zip", zip),
                validateFileSize("branding", branding),
                validateFileSize("guidelines", guidelines),
                IF branding.base = guidelines.base /\ branding.ext = guidelines.ext
                THEN Failed("Branding and guidelines must be different files.")
                ELSE Passed>>)

\* ------------------------------------------------------ error normalizing
\* utils/errorHandling.js
normalizeApiError(err) ==
    IF err = NoError
    THEN ErrorOf("UnknownError", "Unexpected error occurred", "", NoStatus)
    ELSE ErrorOf(IF err.name = "" THEN "Error" ELSE err.name,
                 IF err.message = "" THEN "Unexpected error occurred" ELSE err.message,
                 err.code, err.status)

\* api/client
normalizeError(err) ==
    ErrorOf(IF err.name = "" THEN "UnknownError" ELSE err.name,
            IF err.message = "" THEN "Unexpected error occurred" ELSE err.message,
            err.code, err.status)

\* ------------------------------------------------------------- the client
\* getAuthContext: the user id of localStorage's auth_user, None when absent
Users == {None, "u1"}
\* options.retry of a direct caller of apiFetch: absent, or attempts
RetryOptions ==
    {[has |-> FALSE, attempts |-> 0]}
    \cup {[has |-> TRUE, attempts |-> n] : n \in (-1)..MaxRetry}
\* part_008 line 148: options?.retry?.attempts ?? 2, not below 0
RetryAttempts(opt) == Max(0, IF opt.has THEN opt.attempts ELSE DefaultRetryAttempts)

HttpStatuses == {200, 404, 429, 500, 599}
\* the JSON body of a response: id, jobId and status, "" for a missing field
NoBody == [id |-> "", jobId |-> "", status |-> ""]
Bodies == {[id |-> "A", jobId |-> "", status |-> "running"],
           [id |-> "", jobId |-> "B", status |-> ""]}

\* lines 162-175: the headers apiFetch sets on every request of a call
StandardHeaders(user) ==
    {"X-Request-ID"} \cup (IF user # None THEN {"X-User-ID"} ELSE {})

\* a call of apiFetch up to its first await: the first request is on the wire
apiFetch(owner, job, attempts, signal, user) ==
    [owner |-> owner, job |-> job, via |-> "apiFetch",
     tries |-> 1 + attempts, attempt |-> 0, sent |-> 1, phase |-> "wire",
     hdrs |-> StandardHeaders(user), signal |-> signal, lastErr |-> NoError]

\* part_003 lines 166-168: the browser's fetch, called with a method only
nativeFetch(owner, job) ==
    [owner |-> owner, job |-> job, via |-> "fetch",
     tries |-> 1, attempt |-> 0, sent |-> 1, phase |-> "wire",
     hdrs |-> {}, signal |-> FALSE, lastErr |-> NoError]

\* what one request may settle with: a response, a network error (TypeError),
\* a body that does not parse, or the abort of a call that has a signal
FetchOutcomes(c) ==
    {[kind |-> "response", status |-> st, data |-> d] : st \in HttpStatuses, d \in Bodies}
    \cup {[kind |-> k, status |-> NoStatus, data |-> NoBody] :
            k \in {"TypeError"}
                  \cup (IF c.via = "apiFetch" THEN {"SyntaxError"} ELSE {})
                  \cup (IF c.signal THEN {"AbortError"} ELSE {})}

isOk(st) == st >= 200 /\ st <= 299

isRetryable(o) ==
    IF o.kind = "response" THEN o.status = 429 \/ (o.status >= 500 /\ o.status <= 599)
    ELSE o.kind = "TypeError"

\* what the failure of a request is thrown as: errObj of lines 225-232, or
\* the exception of fetch or of JSON.parse
Raised(o) ==
    IF o.kind = "response"
    THEN ErrorOf("HttpError", "Request failed", "", o.status)
    ELSE ErrorOf(o.kind, "Failed", "", NoStatus)

\* mutant: every failure is retried while tries are left
apiFetchSettleRetriesAnyFailure(c, o) ==
    IF o.kind = "response" /\ isOk(o.status)
    THEN [next |-> "return", err |-> NoError]
    ELSE IF c.attempt < c.tries - 1
    THEN [next |-> "retry", err |-> Raised(o)]
    ELSE [next |-> "throw", err |-> normalizeError(Raised(o))]

\* one turn of the retry loop, lines 190-264, from the settling of its request
apiFetchSettle(c, o) ==
    IF o.kind = "response" /\ isOk(o.status)
    THEN [next |-> "return", err |-> NoError]
    ELSE IF isRetryable(o) /\ c.attempt < c.tries - 1
    THEN [next |-> "retry", err |-> Raised(o)]
    ELSE [next |-> "throw", err |-> normalizeError(Raised(o))]

\* part_003 lines 169-173: fetch resolves or rejects, and is not retried
nativeFetchSettle(c, o) ==
    IF o.kind = "response" /\ isOk(o.status)
    THEN [next |-> "return", err |-> NoError]
    ELSE [next |-> "throw", err |-> Raised(o)]

FreeCalls == {s \in CallSlots : calls[s] = NoCall}
FirstFreeCall == CHOOSE s \in FreeCalls : \A x \in FreeCalls : s <= x

\* ------------------------------------------------------- the upload hook
\* line 55: the object startJob hands to the validator
ValidatorInput(p) ==
    [zip |-> p.zip, oldBrand |-> p.oldBrand, newBrand |-> p.newBrand,
     guidelines |-> p.guidelines, intendReplace |-> p.intendReplace]

\* mutant: the request is sent whatever the validation says
startJobSendsAnyway(p) == [send |-> TRUE, error |-> NoError]

\* startJob, lines 55-60: what the validation decides
startJob(p) ==
    LET val == validateUploadPayload(ValidatorInput(p))
    IN IF ~val.ok
       THEN [send |-> FALSE,
             error |-> normalizeApiError(
                           ErrorOf("ValidationError", val.message, "VALIDATION_FAILED", NoStatus))]
       ELSE [send |-> TRUE, error |-> NoError]

\* lines 78-80
JobInfoOf(data) ==
    [jobId |-> IF data.id # "" THEN data.id
               ELSE IF data.jobId # "" THEN data.jobId ELSE "undefined",
     status |-> IF data.status # "" THEN data.status ELSE "pending"]

\* ---------------------------------------------------------------- the bar
Roles == {"", "viewer", "operator", "admin"}
BarStatuses == {"", "running", "completed", "COMPLETED"}
\* what the reason field may hold, as sequences of characters
Reasons == {<<>>, <<" ", " ", " ">>, <<"o", "k">>, <<" ", "o", "k", " ">>,
            <<"a", " ", "b">>, <<"y", "e", "s">>}

RECURSIVE TrimStart(_)
TrimStart(r) == IF r # <<>> /\ Head(r) = " " THEN TrimStart(Tail(r)) ELSE r
RECURSIVE TrimEnd(_)
TrimEnd(r) ==
    IF r # <<>> /\ r[Len(r)] = " " THEN TrimEnd(SubSeq(r, 1, Len(r) - 1)) ELSE r
\* String.prototype.trim
TrimSeq(r) == TrimEnd(TrimStart(r))

\* lines 53-56
canAct(r) == (IF r = "" THEN "viewer" ELSE r) \in {"operator", "admin"}
isCompleted(st) == LowerCase(st) = "completed"

\* lines 189-190: the buttons
finalizeDisabled ==
    barJob = None \/ ~isCompleted(barStatus) \/ ~canAct(barRole) \/ loadingFinalize
downloadDisabled ==
    \/ barJob = None \/ ~isCompleted(barStatus) \/ ~canAct(barRole)
    \/ ~finalized \/ loadingDownload

\* mutant: the reason is not checked
finalizeJobAnyReason(job, st, r, rsn) ==
    IF job = None THEN [next |-> "return", err |-> NoError]
    ELSE IF ~canAct(r)
    THEN [next |-> "error",
          err |-> ErrorOf("Forbidden", "You do not have permission to finalize.", "", 403)]
    ELSE IF ~isCompleted(st)
    THEN [next |-> "error",
          err |-> ErrorOf("InvalidState", "Job is not completed.", "NOT_COMPLETED", NoStatus)]
    ELSE [next |-> "send", err |-> NoError]

\* finalizeJob, lines 84-102: the checks
finalizeJob(job, st, r, rsn) ==
    IF job = None THEN [next |-> "return", err |-> NoError]
    ELSE IF ~canAct(r)
    THEN [next |-> "error",
          err |-> ErrorOf("Forbidden", "You do not have permission to finalize.", "", 403)]
    ELSE IF ~isCompleted(st)
    THEN [next |-> "error",
          err |-> ErrorOf("InvalidState", "Job is not completed.", "NOT_COMPLETED", NoStatus)]
    ELSE IF rsn = <<>> \/ Len(TrimSeq(rsn)) < MinReasonLength
    THEN [next |-> "error",
          err |-> ErrorOf("ValidationError", "Reason is required (min 3 chars).",
                          "REASON_REQUIRED", NoStatus)]
    ELSE [next |-> "send", err |-> NoError]

\* downloadZip, lines 135-155: the checks
downloadZip(job, st, r, fin) ==
    IF job = None THEN [next |-> "return", err |-> NoError]
    ELSE IF ~canAct(r)
    THEN [next |-> "error",
          err |-> ErrorOf("Forbidden", "You do not have permission to download.", "", 403)]
    ELSE IF ~isCompleted(st)
    THEN [next |-> "error",
          err |-> ErrorOf("InvalidState", "Job is not completed.", "NOT_COMPLETED", NoStatus)]
    ELSE IF ~fin
    THEN [next |-> "error",
          err |-> ErrorOf("NotFinalized",
                          "Please finalize with e-sign placeholder before downloading.",
                          "FINALIZE_REQUIRED", NoStatus)]
    ELSE [next |-> "send", err |-> NoError]

\* ------------------------------------------------- actions of the client
upvars == <<upLoading, upError, jobInfo, upReturn, upVal>>
barprops == <<barJob, barStatus, barRole>>
barstate == <<reason, finalized, barError, loadingFinalize, loadingDownload,
              finalizedJobs>>

\* some module calls apiFetch itself, with or without retry options and signal
ApiFetch(opt, signal) ==
    /\ UNCHANGED <<vars, avars>>
    /\ cops < MaxClientOps
    /\ cops' = cops + 1
    /\ FreeCalls # {}
    /\ calls' = [calls EXCEPT ![FirstFreeCall] =
                    apiFetch("caller", None, RetryAttempts(opt), signal, authUser)]
    /\ UNCHANGED <<authUser, returned, upvars, barprops, barstate>>

\* startJob up to its return or to its await of postMultipart
StartJob(p) ==
    /\ UNCHANGED <<vars, avars>>
    /\ cops < MaxClientOps
    /\ cops' = cops + 1
    /\ upVal' = validateUploadPayload(ValidatorInput(p))
    /\ LET d == startJob(p)
       IN IF ~d.send
          THEN /\ upError' = d.error
               /\ jobInfo' = NoJobInfo
               /\ upReturn' = [jobId |-> "null", status |-> "null", error |-> d.error]
               /\ UNCHANGED <<upLoading, calls>>
          ELSE /\ FreeCalls # {}
               /\ upError' = NoError
               /\ jobInfo' = NoJobInfo
               /\ upLoading' = TRUE
               /\ calls' = [calls EXCEPT ![FirstFreeCall] =
                               apiFetch("upload", None, UploadRetryAttempts, FALSE, authUser)]
               /\ UNCHANGED upReturn
    /\ UNCHANGED <<authUser, returned, barprops, barstate>>

\* the request of the call in slot s settles with o, and the call goes on to
\* its delay, or returns or throws to its caller, which runs to its end
FetchSettles(s, o) ==
    /\ UNCHANGED <<vars, avars>>
    /\ calls[s] # NoCall
    /\ calls[s].phase = "wire"
    /\ o \in FetchOutcomes(calls[s])
    /\ LET c == calls[s]
           step == IF c.via = "apiFetch" THEN apiFetchSettle(c, o)
                   ELSE nativeFetchSettle(c, o)
           ok == step.next = "return"
           norm == normalizeApiError(step.err)
       IN IF step.next = "retry"
          THEN /\ calls' = [calls EXCEPT ![s] =
                               [c EXCEPT !.phase = "sleep", !.lastErr = step.err]]
               /\ UNCHANGED <<returned, upvars, barstate>>
          ELSE /\ calls' = [calls EXCEPT ![s] = NoCall]
               /\ UNCHANGED upVal
               /\ returned' = [owner |-> c.owner, ok |-> ok, err |-> step.err]
               \* useUploadComplianceJob.js lines 78-89
               /\ upLoading' = IF c.owner = "upload" THEN FALSE ELSE upLoading
               /\ jobInfo' = IF c.owner = "upload" /\ ok THEN JobInfoOf(o.data) ELSE jobInfo
               /\ upError' = IF c.owner = "upload" /\ ~ok THEN norm ELSE upError
               /\ upReturn' = IF c.owner # "upload" THEN upReturn
                              ELSE IF ok
                              THEN [jobId |-> JobInfoOf(o.data).jobId,
                                    status |-> JobInfoOf(o.data).status, error |-> NoError]
                              ELSE [jobId |-> "null", status |-> "null", error |-> norm]
               \* part_003 lines 116-124 and 180-186
               /\ finalized' = IF c.owner = "finalize" /\ ok THEN TRUE ELSE finalized
               /\ finalizedJobs' = IF c.owner = "finalize" /\ ok
                                   THEN finalizedJobs \cup {c.job} ELSE finalizedJobs
               /\ barError' = IF c.owner \in {"finalize", "download"} /\ ~ok
                              THEN norm ELSE barError
               /\ loadingFinalize' = IF c.owner = "finalize" THEN FALSE ELSE loadingFinalize
               /\ loadingDownload' = IF c.owner = "download" THEN FALSE ELSE loadingDownload
               /\ UNCHANGED reason
    /\ UNCHANGED <<authUser, barprops, cops>>

\* lines 237-239 and 257-259: the delay is over and the loop fetches again
DelayElapses(s) ==
    /\ UNCHANGED <<vars, avars>>
    /\ calls[s] # NoCall
    /\ calls[s].phase = "sleep"
    /\ calls' = [calls EXCEPT ![s] =
                    [@ EXCEPT !.phase = "wire", !.attempt = @ + 1, !.sent = @ + 1]]
    /\ UNCHANGED <<authUser, returned, upvars, barprops, barstate, cops>>

\* the parent renders the bar with another job, status or user
SetBarJob(j) ==
    /\ UNCHANGED <<vars, avars>>
    /\ cops < MaxBarOps
    /\ cops' = cops + 1
    /\ j # barJob
    /\ barJob' = j
    /\ UNCHANGED <<authUser, calls, returned, upvars, barStatus, barRole, barstate>>

SetBarStatus(st) ==
    /\ UNCHANGED <<vars, avars>>
    /\ cops < MaxBarOps
    /\ cops' = cops + 1
    /\ st # barStatus
    /\ barStatus' = st
    /\ UNCHANGED <<authUser, calls, returned, upvars, barJob, barRole, barstate>>

SetBarRole(r) ==
    /\ UNCHANGED <<vars, avars>>
    /\ cops < MaxBarOps
    /\ cops' = cops + 1
    /\ r # barRole
    /\ barRole' = r
    /\ UNCHANGED <<authUser, calls, returned, upvars, barJob, barStatus, barstate>>

\* the user edits the reason field
TypeReason(r) ==
    /\ UNCHANGED <<vars, avars>>
    /\ cops < MaxBarOps
    /\ cops' = cops + 1
    /\ r # reason
    /\ reason' = r
    /\ UNCHANGED <<authUser, calls, returned, upvars, barprops, finalized, barError,
                   loadingFinalize, loadingDownload, finalizedJobs>>

\* the Finalize button, which is enabled, runs finalizeJob up to its await
ClickFinalize ==
    /\ UNCHANGED <<vars, avars>>
    /\ cops < MaxBarOps
    /\ cops' = cops + 1
    /\ ~finalizeDisabled
    /\ LET chk == finalizeJob(barJob, barStatus, barRole, reason)
       IN CASE chk.next = "return" ->
                  UNCHANGED <<calls, barError, loadingFinalize>>
            [] chk.next = "error" ->
                  /\ barError' = chk.err
                  /\ UNCHANGED <<calls, loadingFinalize>>
            [] chk.next = "send" ->
                  /\ FreeCalls # {}
                  /\ loadingFinalize' = TRUE
                  /\ barError' = NoError
                  /\ calls' = [calls EXCEPT ![FirstFreeCall] =
                                  apiFetch("finalize", barJob, FinalizeRetryAttempts,
                                           FALSE, authUser)]
    /\ UNCHANGED <<authUser, returned, upvars, barprops, reason, finalized,
                   loadingDownload, finalizedJobs>>

\* the Download button, which is enabled, runs downloadZip up to its await
ClickDownload ==
    /\ UNCHANGED <<vars, avars>>
    /\ cops < MaxBarOps
    /\ cops' = cops + 1
    /\ ~downloadDisabled
    /\ LET chk == downloadZip(barJob, barStatus, barRole, finalized)
       IN CASE chk.next = "return" ->
                  UNCHANGED <<calls, barError, loadingDownload>>
            [] chk.next = "error" ->
                  /\ barError' = chk.err
                  /\ UNCHANGED <<calls, loadingDownload>>
            [] chk.next = "send" ->
                  /\ FreeCalls # {}
                  /\ loadingDownload' = TRUE
                  /\ barError' = NoError
                  /\ calls' = [calls EXCEPT ![FirstFreeCall] = nativeFetch("download", barJob)]
    /\ UNCHANGED <<authUser, returned, upvars, barprops, reason, finalized,
                   loadingFinalize, finalizedJobs>>

\* the polling hook is mounted without a job and stays so
PollAtRest == PollInit /\ jobId = None /\ optStart = FALSE

SettleOutcomes ==
    UNION {FetchOutcomes(calls[s]) : s \in {x \in CallSlots : calls[x] # NoCall}}

\* the client and the upload hook
ClientInit ==
    /\ PollAtRest
    /\ ClientAtRest
    /\ AuditAtRest
    /\ NoBar
    /\ authUser \in Users
ClientNext ==
    \/ \E opt \in RetryOptions, signal \in BOOLEAN : ApiFetch(opt, signal)
    \/ \E p \in Payloads : StartJob(p)
    \/ \E s \in CallSlots, o \in SettleOutcomes : FetchSettles(s, o)
    \/ \E s \in CallSlots : DelayElapses(s)
ClientSpec == ClientInit /\ [][ClientNext]_allvars

\* ---------------------------------------------- steps of the client, as
\* seen from a pair of states
\* a command other than a direct call of apiFetch: startJob has run
StartJobStep ==
    /\ cops' # cops
    /\ \A s \in CallSlots : calls'[s] = calls[s] \/ calls'[s].owner # "caller"

\* ------------------------------------------------------------------- C21
\* C21: when the validation of the upload fails, startJob sends no request,
\* returns a result that carries the normalized ValidationError, stores that
\* error, and leaves jobInfo null and loading false.
C21_ValidationFailureSendsNothing ==
    [][(StartJobStep /\ ~upVal'.ok) =>
        /\ calls' = calls
        /\ upReturn'.jobId = "null"
        /\ upReturn'.error =
               ErrorOf("ValidationError", upVal'.message, "VALIDATION_FAILED", NoStatus)
        /\ upError' = upReturn'.error
        /\ jobInfo' = NoJobInfo
        /\ upLoading' = FALSE]_cvars

\* startJob has returned a validation error while a call of apiFetch by
\* another caller is on the wire
C21_Witness ==
    /\ ~upVal.ok
    /\ upReturn.error.name = "ValidationError"
    /\ upError = upReturn.error
    /\ jobInfo = NoJobInfo /\ ~upLoading
    /\ \E s \in CallSlots : calls[s] # NoCall /\ calls[s].owner = "caller"

\* ------------------------------------------------------------------- C22
\* the inputs the upload form asks for: zip, old-brand file and guidelines
\* of an allowed type and size, and a new-brand file when a replacement is
\* intended
ValidInputs(p) ==
    /\ validateFileType("zip", p.zip).ok /\ validateFileSize("zip", p.zip).ok
    /\ validateFileType("branding", p.oldBrand).ok
    /\ validateFileSize("branding", p.oldBrand).ok
    /\ validateFileType("guidelines", p.guidelines).ok
    /\ validateFileSize("guidelines", p.guidelines).ok
    /\ p.intendReplace =>
          /\ validateFileType("branding", p.newBrand).ok
          /\ validateFileSize("branding", p.newBrand).ok
ValidPayloads == {p \in Payloads : ValidInputs(p)}

\* C22: when the inputs are valid, startJob submits exactly one multipart
\* POST to /api/v1/jobs (and returns what the call returns or throws).
C22_ValidInputsPostOnce ==
    [][StartJobStep =>
        \A p \in ValidPayloads :
            StartJob(p) =>
                Cardinality({s \in CallSlots :
                                /\ calls[s] = NoCall /\ calls'[s] # NoCall
                                /\ calls'[s].owner = "upload"}) = 1]_cvars

\* ------------------------------------------------------------------- C23
\* the failures the transport may retry: a network error, 429 and 5xx
RetryableError(e) ==
    \/ e.name = "TypeError"
    \/ e.name = "HttpError" /\ (e.status = 429 \/ (e.status >= 500 /\ e.status <= 599))

\* C23: a call of apiFetch sends at most 1 + retry.attempts requests, goes
\* on to another request only after a network error, a 429 or a 5xx, and
\* ends by returning a success or by throwing a normalized error; any other
\* failure ends the call with the request that met it.
C23_RetryBoundedSelective ==
    [][calls' # calls =>
        \A s \in CallSlots :
            (calls[s] # NoCall /\ calls[s].via = "apiFetch" /\ calls'[s] # calls[s]) =>
                /\ calls[s].sent <= calls[s].tries
                /\ calls[s].phase = "wire" /\ calls'[s] = NoCall =>
                      /\ returned'.owner = calls[s].owner
                      /\ returned'.ok \/ (returned'.err.name \notin {"", "null"}
                                          /\ returned'.err.message # "")
                      /\ returned'.ok => returned'.err = NoError
                /\ calls[s].phase = "wire" /\ calls'[s] # NoCall =>
                      /\ calls'[s].phase = "sleep"
                      /\ RetryableError(calls'[s].lastErr)
                      /\ calls'[s].sent = calls[s].sent
                      /\ calls[s].sent < calls[s].tries
                /\ calls[s].phase = "sleep" =>
                      /\ calls'[s] # NoCall /\ calls'[s].phase = "wire"
                      /\ calls'[s].sent = calls[s].sent + 1
                      /\ calls'[s].sent <= calls'[s].tries
                      /\ calls'[s].tries = calls[s].tries]_cvars

\* a call with two retries has its third request on the wire, after another
\* call threw the 404 its only request met
C23_Witness ==
    /\ \E s \in CallSlots :
          /\ calls[s] # NoCall /\ calls[s].via = "apiFetch"
          /\ calls[s].tries = 1 + DefaultRetryAttempts
          /\ calls[s].sent = calls[s].tries /\ calls[s].phase = "wire"
    /\ ~returned.ok /\ returned.err.name = "HttpError" /\ returned.err.status = 404

\* ------------------------------------------------- the bar and the client
\* the bar is rendered for job A, with some status and some user
BarInit ==
    /\ PollAtRest
    /\ ClientAtRest
    /\ AuditAtRest
    /\ authUser \in Users
    /\ barJob = "A"
    /\ barStatus \in BarStatuses
    /\ barRole \in Roles
BarNext ==
    \/ \E j \in Jobs \cup {None} : SetBarJob(j)
    \/ \E st \in BarStatuses : SetBarStatus(st)
    \/ \E r \in Roles : SetBarRole(r)
    \/ \E r \in Reasons : TypeReason(r)
    \/ ClickFinalize
    \/ ClickDownload
    \/ \E s \in CallSlots, o \in SettleOutcomes : FetchSettles(s, o)
    \/ \E s \in CallSlots : DelayElapses(s)
BarSpec == BarInit /\ [][BarNext]_allvars

\* ------------------------------------------------------------------- C24
\* C24: every request to the backend, the finalize and the download request
\* included, carries X-Request-ID and, when a user is known, X-User-ID.
C24_RequestsCarryIds ==
    \A s \in CallSlots :
        calls[s] # NoCall =>
            /\ "X-Request-ID" \in calls[s].hdrs
            /\ authUser # None => "X-User-ID" \in calls[s].hdrs

\* ------------------------------------------------------------------- C25
\* C25: a download request for a job is sent only after a finalize request
\* for that same job has succeeded.
C25_DownloadAfterOwnFinalize ==
    \A s \in CallSlots :
        (calls[s] # NoCall /\ calls[s].owner = "download") =>
            calls[s].job \in finalizedJobs

\* ------------------------------------------------------------------- C26
\* a call of the given owner is created in slot s
NewCall(s, owner) ==
    calls[s] = NoCall /\ calls'[s] # NoCall /\ calls'[s].owner = owner
RoleAllowed == barRole \in {"operator", "admin"}
StatusCompleted == barStatus \in {"completed", "COMPLETED"}
\* the characters of r that are not blanks
NonBlank(r) == Cardinality({i \in 1..Len(r) : r[i] # " "})

\* C26 as stated: no finalize or download request is sent unless the role
\* is operator or admin and the status is completed, in any letter case; a
\* finalize request needs a reason of at least 3 non-blank characters.
C26_ChecksAsStated ==
    [][cops' # cops =>
        \A s \in CallSlots :
            /\ NewCall(s, "download") => RoleAllowed /\ StatusCompleted
            /\ NewCall(s, "finalize") =>
                  RoleAllowed /\ StatusCompleted /\ NonBlank(reason) >= MinReasonLength]_cvars

\* C26, amended: the reason needs a length of at least 3 once the blanks at
\* its ends are removed; when a check fails the error is stored and no
\* request is sent.
C26_ChecksGateRequests ==
    [][cops' # cops =>
        /\ \A s \in CallSlots :
              /\ NewCall(s, "download") =>
                    RoleAllowed /\ StatusCompleted /\ calls'[s].job = barJob
              /\ NewCall(s, "finalize") =>
                    /\ RoleAllowed /\ StatusCompleted /\ calls'[s].job = barJob
                    /\ Len(TrimSeq(reason)) >= MinReasonLength
        /\ (ClickFinalize /\ (~RoleAllowed \/ ~StatusCompleted
                              \/ Len(TrimSeq(reason)) < MinReasonLength)) =>
              /\ calls' = calls
              /\ barError' # NoError
              /\ barError'.name \in {"Forbidden", "InvalidState", "ValidationError"}
        /\ (ClickDownload /\ (~RoleAllowed \/ ~StatusCompleted)) =>
              /\ calls' = calls
              /\ barError' # NoError]_cvars

\* Finalize was pressed with a reason of blanks: the error is shown and no
\* request was sent
C26_Witness ==
    /\ barError.code = "REASON_REQUIRED"
    /\ reason = <<" ", " ", " ">>
    /\ RoleAllowed /\ StatusCompleted
    /\ ~loadingFinalize
    /\ \A s \in CallSlots : calls[s] = NoCall

\* =========================================================================
\* The polling engine, continued
\* =========================================================================

\* ------------------------------------------------------------------- C27
\* the requests a tick has sent in the step
TickSent == {x \in Slots : Issued(x) /\ inflight'[x].owner = "tick"}
\* a timer fires: no command, no request settles, a timer is gone
TimerFireStep ==
    /\ ops' = ops /\ timers' # timers
    /\ \A s \in Slots : inflight[s] # Free => inflight'[s] = inflight[s]

C28_OneStatusInFlight ==
    Cardinality({s \in Slots : /\ inflight[s] # Free
                               /\ inflight[s].kind = "status"
                               /\ ~inflight[s].aborted}) <= 1

\* ------------------------------------------------------------------- C30
\* C30: in every reachable state at most one timer of a scheduled tick is
\* pending, and it is the one timerRef holds.
C30_OneTimerPending ==
    /\ Cardinality(timers) <= 1
    /\ \A t \in timers : t.id = timerRef

\* two ticks overlap after stop() and start(): the timer one of them has set
\* is pending while the status request of the other is in flight
C30_Witness ==
    /\ runningRef
    /\ Cardinality(timers) = 1
    /\ \E s \in Slots :
          /\ inflight[s] # Free /\ inflight[s].kind = "status"
          /\ inflight[s].owner = "tick" /\ ~inflight[s].aborted

\* ------------------------------------------------------------------- C29
\* the engine is started for job A and never stopped: timers fire, requests
\* settle, and the user may ask for a refresh; what can happen does happen
LiveInit == Init /\ jobId = "A" /\ optStart
LiveNext ==
    \/ RefreshNow
    \/ \E t \in timers : TimerFire(t)
    \/ \E s \in Slots, o \in StatusOutcomes, jitter \in Jitters : StatusSettles(s, o, jitter)
    \/ \E s \in Slots, o \in ResultsOutcomes, jitter \in Jitters : ResultsSettles(s, o, jitter)
LiveSpec ==
    /\ LiveInit
    /\ [][LiveNext]_allvars
    /\ WF_allvars(\E t \in timers : TimerFire(t))
    /\ WF_allvars(\E s \in Slots, o \in StatusOutcomes, jitter \in Jitters :
                      StatusSettles(s, o, jitter))
    /\ WF_allvars(\E s \in Slots, o \in ResultsOutcomes, jitter \in Jitters :
                      ResultsSettles(s, o, jitter))

\* a status request settles otherwise than with a terminal status
NonTerminalAnswer ==
    /\ \E s \in Slots : SlotSettles(s, "status")
    /\ error' # Null \/ ~isTerminal(status')

\* C29: if from some point on every status request is answered with a
\* terminal status, the engine eventually stops for good, with a terminal
\* status, not running and no timer pending.
C29_EventuallyTerminal ==
    (<>[][~NonTerminalAnswer]_vars) =>
        <>[](isTerminal(status) /\ ~runningRef /\ timers = {})

\* ======================================================== the audit queue
Range(q) == {q[i] : i \in 1..Len(q)}
\* Array.prototype.slice(-n)
LastOf(q, n) == IF Len(q) <= n THEN q ELSE SubSeq(q, Len(q) - n + 1, Len(q))

\* flush, lines 86-90, up to its await.  closure is the entries of the render
\* that created this flush (useCallback with [entries], line 107)
flush(closure, sending) ==
    IF sending
    THEN [send |-> FALSE, ret |-> [sent |-> 0, remaining |-> Len(closure)]]
    ELSE IF Len(closure) = 0
    THEN [send |-> FALSE, ret |-> [sent |-> 0, remaining |-> 0]]
    ELSE [send |-> TRUE, ret |-> NoFlushReturn]

\* line 93: the call of postJson, with the batch and the closure it belongs to
auditPost(closure, user) ==
    apiFetch("audit", None, AuditRetryAttempts, FALSE, user) @@ [batch |-> closure]

FreePosts == {s \in PostSlots : posts[s] = NoCall}
FirstFreePost == CHOOSE s \in FreePosts : \A x \in FreePosts : s <= x

\* a call of the flush that closed over closure, to its await or its return
CallFlush(closure) ==
    LET f == flush(closure, sendingRef)
    IN IF f.send
       THEN /\ FreePosts # {}
            /\ sendingRef' = TRUE
            /\ lastError' = NoError
            /\ posts' = [posts EXCEPT ![FirstFreePost] = auditPost(closure, authUser)]
            /\ UNCHANGED flushReturn
       ELSE /\ flushReturn' = f.ret
            /\ UNCHANGED <<sendingRef, lastError, posts>>

\* ---------------------------------------------- actions of the audit queue
\* some consumer calls enqueueAudit, lines 60-75
EnqueueAudit ==
    /\ UNCHANGED <<vars, cvars>>
    /\ aops < MaxAuditOps
    /\ aops' = aops + 1
    /\ lastId < MaxEntries
    /\ lastId' = lastId + 1
    /\ entries' = Append(entries, lastId + 1)
    /\ UNCHANGED <<lastError, sendingRef, posts, flushTimers, flushReturn,
                   accepted, nextTimer>>

\* some consumer calls the flush of the current render
Flush ==
    /\ UNCHANGED <<vars, cvars>>
    /\ aops < MaxAuditOps
    /\ aops' = aops + 1
    /\ CallFlush(entries)
    /\ UNCHANGED <<entries, flushTimers, lastId, accepted, nextTimer>>

\* Login.jsx lines 53-99, submit with fields that pass its checks: login, then
\* enqueueAudit, then setTimeout of the flush this render of Login got
Submit ==
    /\ UNCHANGED vars
    /\ aops < MaxAuditOps
    /\ aops' = aops + 1
    /\ lastId < MaxEntries
    /\ Cardinality(flushTimers) < MaxFlushTimers
    /\ authUser' = "u1"
    /\ lastId' = lastId + 1
    /\ entries' = Append(entries, lastId + 1)
    /\ nextTimer' = nextTimer + 1
    /\ flushTimers' = flushTimers \cup {[id |-> nextTimer + 1, closure |-> entries]}
    /\ UNCHANGED <<calls, returned, upvars, barprops, barstate, cops>>
    /\ UNCHANGED <<lastError, sendingRef, posts, flushReturn, accepted>>

\* Login.jsx lines 90-92: the callback runs
FlushTimerFires(t) ==
    /\ UNCHANGED <<vars, cvars>>
    /\ t \in flushTimers
    /\ flushTimers' = flushTimers \ {t}
    /\ CallFlush(t.closure)
    /\ UNCHANGED <<entries, lastId, accepted, nextTimer, aops>>

\* the request of a flush settles: apiFetch retries, returns or throws, and
\* flush runs on from line 93 to its return
PostSettles(s, o) ==
    /\ UNCHANGED <<vars, cvars>>
    /\ posts[s] # NoCall
    /\ posts[s].phase = "wire"
    /\ o \in FetchOutcomes(posts[s])
    /\ LET c == posts[s]
           step == apiFetchSettle(c, o)
       IN IF step.next = "retry"
          THEN /\ posts' = [posts EXCEPT ![s] =
                               [c EXCEPT !.phase = "sleep", !.lastErr = step.err]]
               /\ UNCHANGED <<entries, lastError, sendingRef, flushReturn, accepted>>
          ELSE IF step.next = "return"
          THEN \* lines 95-96 and 105
               /\ posts' = [posts EXCEPT ![s] = NoCall]
               /\ entries' = <<>>
               /\ accepted' = accepted \cup Range(c.batch)
               /\ flushReturn' = [sent |-> Len(c.batch), remaining |-> 0]
               /\ sendingRef' = FALSE
               /\ UNCHANGED lastError
          ELSE \* lines 98-105
               /\ posts' = [posts EXCEPT ![s] = NoCall]
               /\ lastError' = step.err
               /\ entries' = IF Len(c.batch) > TruncateAbove
                             THEN LastOf(entries, KeepLast) ELSE entries
               /\ flushReturn' = [sent |-> 0, remaining |-> Len(c.batch)]
               /\ sendingRef' = FALSE
               /\ UNCHANGED accepted
    /\ UNCHANGED <<flushTimers, lastId, nextTimer, aops>>

\* part_008 lines 237-239 and 257-259, for the request of a flush
PostDelayElapses(s) ==
    /\ UNCHANGED <<vars, cvars>>
    /\ posts[s] # NoCall
    /\ posts[s].phase = "sleep"
    /\ posts' = [posts EXCEPT ![s] =
                    [@ EXCEPT !.phase = "wire", !.attempt = @ + 1, !.sent = @ + 1]]
    /\ UNCHANGED <<entries, lastError, sendingRef, flushTimers, flushReturn,
                   lastId, accepted, nextTimer, aops>>

PostOutcomes ==
    UNION {FetchOutcomes(posts[s]) : s \in {x \in PostSlots : posts[x] # NoCall}}

\* AuditProvider mounted around the router, the login screen and any consumer
AuditInit ==
    /\ PollAtRest
    /\ ClientAtRest
    /\ AuditAtRest
    /\ NoBar
    /\ authUser \in Users
AuditNext ==
    \/ EnqueueAudit
    \/ Flush
    \/ Submit
    \/ \E t \in flushTimers : FlushTimerFires(t)
    \/ \E s \in PostSlots, o \in PostOutcomes : PostSettles(s, o)
    \/ \E s \in PostSlots : PostDelayElapses(s)
AuditSpec == AuditInit /\ [][AuditNext]_allvars

\* ------------------------------------------------------------------- C31
\* C31: an entry leaves the queue only in a step after which it belongs to a
\* batch the backend accepted, as long as the queue holds at most
\* TruncateAbove entries; so an entry enqueued while a flush is in flight
\* stays when that flush succeeds, and a failed flush removes nothing.
C31_LeavesOnlyIfAccepted ==
    [][entries' # entries /\ Len(entries) <= TruncateAbove =>
          \A e \in Range(entries) : e \notin Range(entries') => e \in accepted']_avars

\* ------------------------------------------------------------------- C32
\* a step that is a call of flush, by a consumer or by the callback of submit
FlushInvoked == Flush \/ \E t \in flushTimers : FlushTimerFires(t)
PostsInFlight == {s \in PostSlots : posts[s] # NoCall}

\* C32: a flush called while nothing is being sent and the queue is not
\* empty posts the queue as it is at that moment, the entry enqueued just
\* before the call included; and at most one batch request is ever in flight.
C32_FlushSendsQueue ==
    /\ [][(flushTimers' # flushTimers \/ aops' # aops)
            /\ FlushInvoked /\ ~sendingRef /\ entries # <<>> =>
              \E s \in PostSlots : /\ posts[s] = NoCall /\ posts'[s] # NoCall
                                   /\ posts'[s].batch = entries]_avars
    /\ [](Cardinality(PostsInFlight) <= 1)
====
